---- MODULE Spec2Model ----
(***************************************************************************)
(* A model of the hfs client library: HFSpace.Do (submit a job, read the   *)
(* event stream), the FileData constructors, and the Quax uploader.        *)
(* Text that the code inspects character by character (endpoint paths and  *)
(* event-stream bodies) is a sequence of one-character strings.            *)
(***************************************************************************)
EXTENDS Integers, Sequences, FiniteSets, TLC

VARIABLES h, doCall, fd, fdCall, fs, qxCall, clients, h2, cfgCall, dlCall,
          pipe

vars ==
  <<h, doCall, fd, fdCall, fs, qxCall, clients, h2, cfgCall, dlCall, pipe>>

\* the second client, the http.Client objects and the last setter call
clientVars == <<clients, h2, cfgCall>>

(***************************************************************************)
(* Bounds                                                                  *)
(***************************************************************************)
\* the longest event stream, in lines
MaxLines == 4
\* the longest event stream that is combined with every endpoint, every
\* submission response and every kind of line
ShortLines == 2
\* the longest byte buffer handed to FromBytes / Upload
MaxData == 2
\* the most chunks of file contents one upload copies into the pipe
MaxChunks == 2

(***************************************************************************)
(* Optional values and string helpers                                      *)
(***************************************************************************)
None == <<>>
Some(v) == <<v>>

RECURSIVE Str(_)
\* the string spelled by a sequence of characters
Str(s) == IF s = <<>> THEN "" ELSE Head(s) \o Str(Tail(s))

\* strings.HasPrefix
HasPrefix(s, p) == Len(s) >= Len(p) /\ SubSeq(s, 1, Len(p)) = p

\* strings.Contains
Contains(s, sub) ==
  \E i \in 1..(Len(s) - Len(sub) + 1) : SubSeq(s, i, i + Len(sub) - 1) = sub

\* strings.TrimPrefix: drops one leading occurrence of the character
TrimLeftOne(s, c) == IF s # <<>> /\ Head(s) = c THEN Tail(s) ELSE s

RECURSIVE TrimLeft(_, _)
\* strings.TrimLeft(s, cutset) for a one-character cutset: drops every
\* leading occurrence of the character
TrimLeft(s, c) ==
  IF s # <<>> /\ Head(s) = c THEN TrimLeft(Tail(s), c) ELSE s

IsSpace(c) == c \in {" ", "\t", "\r", "\n"}

RECURSIVE TrimSpaceLeft(_)
TrimSpaceLeft(s) ==
  IF s # <<>> /\ IsSpace(Head(s)) THEN TrimSpaceLeft(Tail(s)) ELSE s

RECURSIVE TrimSpaceRight(_)
TrimSpaceRight(s) ==
  IF s # <<>> /\ IsSpace(s[Len(s)])
  THEN TrimSpaceRight(SubSeq(s, 1, Len(s) - 1))
  ELSE s

\* strings.TrimSpace
TrimSpace(s) == TrimSpaceRight(TrimSpaceLeft(s))

RECURSIVE IndexFrom(_, _, _)
\* the least index of c in s at or after i, or 0 when there is none
IndexFrom(s, c, i) ==
  IF i > Len(s) THEN 0 ELSE IF s[i] = c THEN i ELSE IndexFrom(s, c, i + 1)

RECURSIVE SplitFrom(_, _, _)
SplitFrom(s, c, from) ==
  LET i == IndexFrom(s, c, from) IN
  IF i = 0 THEN <<SubSeq(s, from, Len(s))>>
  ELSE <<SubSeq(s, from, i - 1)>> \o SplitFrom(s, c, i + 1)

\* strings.Split(s, sep) for a one-character separator; never empty
Split(s, c) == SplitFrom(s, c, 1)

RECURSIVE JoinLines(_)
\* the body a server writes: its lines separated by newlines
JoinLines(ls) ==
  IF ls = <<>> THEN <<>>
  ELSE IF Len(ls) = 1 THEN ls[1]
  ELSE ls[1] \o <<"\n">> \o JoinLines(Tail(ls))

(***************************************************************************)
(* JSON decoding of the final data line into []O                           *)
(***************************************************************************)
Digits == {"0", "1", "2", "3", "4", "5", "6", "7", "8", "9"}

DigitVal(c) ==
  CASE c = "0" -> 0 [] c = "1" -> 1 [] c = "2" -> 2 [] c = "3" -> 3
    [] c = "4" -> 4 [] c = "5" -> 5 [] c = "6" -> 6 [] c = "7" -> 7
    [] c = "8" -> 8 [] c = "9" -> 9

RECURSIVE NumVal(_, _)
NumVal(s, acc) ==
  IF s = <<>> THEN acc ELSE NumVal(Tail(s), acc * 10 + DigitVal(Head(s)))

\* json.Unmarshal(data, &Result) for the arrays the model's servers send:
\* an empty array or an array of one unsigned integer; anything else is a
\* syntax error.
UnmarshalResult(s) ==
  IF Len(s) >= 2 /\ s[1] = "[" /\ s[Len(s)] = "]"
  THEN LET inner == TrimSpace(SubSeq(s, 2, Len(s) - 1)) IN
       IF inner = <<>> THEN [ok |-> TRUE, val |-> <<>>]
       ELSE IF \A i \in 1..Len(inner) : inner[i] \in Digits
            THEN [ok |-> TRUE, val |-> <<NumVal(inner, 0)>>]
            ELSE [ok |-> FALSE, val |-> <<>>]
  ELSE [ok |-> FALSE, val |-> <<>>]

(***************************************************************************)
(* HFSpace.Do                                                              *)
(***************************************************************************)
EventPrefix == <<"e", "v", "e", "n", "t", ":">>
DataPrefix == <<"d", "a", "t", "a", ":">>
ErrorWord == <<"e", "r", "r", "o", "r">>
CompleteWord == <<"c", "o", "m", "p", "l", "e", "t", "e">>

\* the decoded submission response: json.NewDecoder(resp.Body).Decode(&idResp)
\* body.json is the shape of the body's JSON text, body.event_id the value
\* of its event_id member when it is an object that has one.
DecodeEventID(body) ==
  CASE body.json = "invalid" -> [ok |-> FALSE, Eventid |-> ""]
    [] body.json = "array" -> [ok |-> FALSE, Eventid |-> ""]
    [] body.json = "null" -> [ok |-> TRUE, Eventid |-> ""]
    [] body.json = "object" ->
         IF body.event_id = None THEN [ok |-> TRUE, Eventid |-> ""]
         ELSE IF body.event_id[1].t = "string"
              THEN [ok |-> TRUE, Eventid |-> body.event_id[1].s]
              ELSE [ok |-> FALSE, Eventid |-> ""]

RECURSIVE ScanLinesNoBreak(_, _, _)
\* ScanLines with the break after a completed event's data line left out
ScanLinesNoBreak(lines, EventCompleted, data) ==
  IF lines = <<>> THEN [eventError |-> FALSE, data |-> data]
  ELSE
    LET line == Head(lines)
        isEvent == HasPrefix(line, EventPrefix)
    IN IF isEvent /\ Contains(line, ErrorWord)
       THEN [eventError |-> TRUE, data |-> data]
       ELSE IF HasPrefix(line, DataPrefix)
            THEN ScanLinesNoBreak(Tail(lines), EventCompleted,
                   TrimSpace(SubSeq(line, Len(DataPrefix) + 1, Len(line))))
            ELSE ScanLinesNoBreak(Tail(lines), EventCompleted, data)

RECURSIVE ScanLinesFirstData(_, _, _)
\* ScanLines breaking at the first data line, whatever events came before
ScanLinesFirstData(lines, EventCompleted, data) ==
  IF lines = <<>> THEN [eventError |-> FALSE, data |-> data]
  ELSE
    LET line == Head(lines)
        isEvent == HasPrefix(line, EventPrefix)
    IN IF isEvent /\ Contains(line, ErrorWord)
       THEN [eventError |-> TRUE, data |-> data]
       ELSE IF HasPrefix(line, DataPrefix)
            THEN [ eventError |-> FALSE,
                   data |-> TrimSpace(SubSeq(line, Len(DataPrefix) + 1,
                                             Len(line))) ]
            ELSE ScanLinesFirstData(Tail(lines), EventCompleted, data)

RECURSIVE ScanLines(_, _, _)
\* the scan loop of Do over the lines of the event stream: the outcome is
\* an error event, or the data retained when the loop ends or breaks
ScanLines(lines, EventCompleted, data) ==
  IF lines = <<>> THEN [eventError |-> FALSE, data |-> data]
  ELSE
    LET line == Head(lines)
        isEvent == HasPrefix(line, EventPrefix)
        completed == EventCompleted \/ (isEvent /\ Contains(line, CompleteWord))
    IN IF isEvent /\ Contains(line, ErrorWord)
       THEN [eventError |-> TRUE, data |-> data]
       ELSE IF HasPrefix(line, DataPrefix)
            THEN LET d == TrimSpace(SubSeq(line, Len(DataPrefix) + 1, Len(line)))
                 IN IF completed
                    THEN [eventError |-> FALSE, data |-> d]
                    ELSE ScanLines(Tail(lines), completed, d)
            ELSE ScanLines(Tail(lines), completed, data)

DoReturn(result, err, requests) ==
  [result |-> result, err |-> err, requests |-> requests]

\* DoParse without the check of the error event
DoParseIgnoreEventError(res2, requests) ==
  LET scan == ScanLines(Split(res2, "\n"), FALSE, <<>>)
  IN IF Len(scan.data) = 0
     THEN DoReturn(None, "hfs no data in resp", requests)
     ELSE LET dec == UnmarshalResult(scan.data) IN
          IF ~dec.ok THEN DoReturn(None, "hfs decode final resp", requests)
          ELSE DoReturn(Some(dec.val), "", requests)

\* DoParse without the check that a data line was found
DoParseNoEmptyCheck(res2, requests) ==
  LET scan == ScanLines(Split(res2, "\n"), FALSE, <<>>)
  IN IF scan.eventError THEN DoReturn(None, "hfs event error", requests)
     ELSE LET dec == UnmarshalResult(scan.data) IN
          IF ~dec.ok THEN DoReturn(None, "hfs decode final resp", requests)
          ELSE DoReturn(Some(dec.val), "", requests)

\* Do from the read of the follow-up GET's body to its return
DoParse(res2, requests) ==
  LET lines == Split(res2, "\n")
      scan == ScanLines(lines, FALSE, <<>>)
  IN IF scan.eventError THEN DoReturn(None, "hfs event error", requests)
     ELSE IF Len(scan.data) = 0
          THEN DoReturn(None, "hfs no data in resp", requests)
          ELSE LET dec == UnmarshalResult(scan.data) IN
               IF ~dec.ok
               THEN DoReturn(None, "hfs decode final resp", requests)
               ELSE DoReturn(Some(dec.val), "", requests)

\* Do issuing the follow-up GET a second time when its transport fails
DoRetryGet(hh, endpoint, paramsOK, post, get) ==
  LET fullURL == hh.BaseURL \o "/" \o Str(TrimLeft(endpoint, "/"))
      postReq == [ method |-> "POST", url |-> fullURL, headers |-> hh.Headers,
                  client |-> hh.client ]
  IN IF ~paramsOK THEN DoReturn(None, "hfs req body marshall", <<>>)
     ELSE IF post.transportErr
     THEN DoReturn(None, "hfs post req exec", <<postReq>>)
     ELSE
       LET idResp == DecodeEventID(post.body) IN
       IF ~idResp.ok THEN DoReturn(None, "hfs event ID decode", <<postReq>>)
       ELSE
         LET getReq == [method |-> "GET",
                        url |-> fullURL \o "/" \o idResp.Eventid,
                        headers |-> hh.Headers, client |-> hh.client]
         IN IF get.transportErr
            THEN DoReturn(None, "hfs get req exec", <<postReq, getReq, getReq>>)
            ELSE IF get.readErr
                 THEN DoReturn(None, "hfs get resp read", <<postReq, getReq>>)
                 ELSE DoParse(JoinLines(get.lines), <<postReq, getReq>>)

\* the whole of Do: client hh, endpoint path, whether the parameters can be
\* marshalled, and what the network answers to the POST and to the GET
Do(hh, endpoint, paramsOK, post, get) ==
  LET fullURL == hh.BaseURL \o "/" \o Str(TrimLeft(endpoint, "/"))
      postReq == [ method |-> "POST", url |-> fullURL, headers |-> hh.Headers,
                  client |-> hh.client ]
  IN IF ~paramsOK THEN DoReturn(None, "hfs req body marshall", <<>>)
     ELSE IF post.transportErr
     THEN DoReturn(None, "hfs post req exec", <<postReq>>)
     ELSE
       LET idResp == DecodeEventID(post.body) IN
       IF ~idResp.ok THEN DoReturn(None, "hfs event ID decode", <<postReq>>)
       ELSE
         LET streamURL == fullURL \o "/" \o idResp.Eventid
             getReq == [method |-> "GET", url |-> streamURL,
                        headers |-> hh.Headers, client |-> hh.client]
             reqs == <<postReq, getReq>>
         IN IF get.transportErr THEN DoReturn(None, "hfs get req exec", reqs)
            ELSE IF get.readErr THEN DoReturn(None, "hfs get resp read", reqs)
            ELSE DoParse(JoinLines(get.lines), reqs)

(***************************************************************************)
(* Quax uploader                                                           *)
(***************************************************************************)
ENDPOINT == "https://qu.ax/upload.php"

\* the size cap of fileUpload, in bytes (200 MiB)
MaxUploadSize == 209715200

\* what a call did besides returning: pipes made, producer goroutines
\* started, HTTP requests handed to the transport
NoIO == [pipes |-> 0, goroutines |-> 0, requests |-> <<>>]

UploadIO == [ pipes |-> 1, goroutines |-> 1,
              requests |-> <<[method |-> "POST", url |-> ENDPOINT]>> ]

QxReturn(url, err, io) == [url |-> url, err |-> err, panicked |-> FALSE, io |-> io]

\* rawUpload and fileUpload from quax.Client.Do(req) to the return: net is
\* the transport's answer, net.body the decoded shape of the response JSON
UploadResponse(net, io) ==
  IF net.transportErr THEN QxReturn("", "transport", io)
  ELSE IF net.readErr THEN QxReturn("", "read", io)
  ELSE IF net.body.json = "invalid"
       THEN QxReturn("", "quax upload response unmarshal", io)
       ELSE IF ~net.body.success \/ Len(net.body.files) = 0
            THEN QxReturn("", "quax upload failed", io)
            ELSE QxReturn(net.body.files[1], "", io)

\* Quax.rawUpload(b, name)
rawUpload(b, name, net) == UploadResponse(net, UploadIO)

\* os.Stat(name) fails with a not-exist error
StatNotExist(fsys, name) == name \notin DOMAIN fsys \/ fsys[name].kind = "missing"

\* FileSize(filepath)
FileSize(fsys, filepath) ==
  IF StatNotExist(fsys, filepath) THEN 0 ELSE fsys[filepath].size

\* FileExists(name)
FileExists(fsys, name) == ~StatNotExist(fsys, name)

\* Quax.fileUpload(path)
fileUpload(fsys, path, net) ==
  IF StatNotExist(fsys, path) \/ fsys[path].kind = "unreadable"
  THEN QxReturn("", "open", NoIO)
  ELSE IF FileSize(fsys, path) > MaxUploadSize
       THEN QxReturn("", "file too large", NoIO)
       ELSE UploadResponse(net, UploadIO)

\* url.Parse(s) followed by URL.String(), on the URLs of the model: the
\* scheme is lower-cased, a URL without a scheme before its colon is refused
UrlParseString(s) ==
  CASE s = ":bad" -> [ok |-> FALSE, s |-> ""]
    [] s = "HTTPS://qu.ax/y.png" -> [ok |-> TRUE, s |-> "https://qu.ax/y.png"]
    [] OTHER -> [ok |-> TRUE, s |-> s]

\* the closure parse of Upload: parse := func(s string, _ error): the error
\* of fileUpload is its blank parameter
parse(r) ==
  LET uri == UrlParseString(r.url) IN
  IF ~uri.ok THEN QxReturn("", "url parse", r.io)
  ELSE QxReturn(uri.s, "", r.io)

\* Quax.Upload(v...): v is the argument list, each argument a value with
\* its dynamic type
Upload(fsys, v, net) ==
  IF Len(v) = 0
  THEN QxReturn("", "must specify file path or byte slice", NoIO)
  ELSE CASE v[1].t = "string" ->
              IF FileExists(fsys, v[1].s)
              THEN parse(fileUpload(fsys, v[1].s, net))
              ELSE QxReturn("", "path invalid", NoIO)
         [] v[1].t = "bytes" ->
              IF Len(v) # 2 THEN QxReturn("", "must specify file name", NoIO)
              ELSE IF v[2].t # "string"
                   THEN [url |-> "", err |-> "", panicked |-> TRUE, io |-> NoIO]
                   ELSE rawUpload(v[1].b, v[2].s, net)
         [] OTHER -> QxReturn("", "unhandled", NoIO)

(***************************************************************************)
(* The upload step by step: the goroutine that writes the multipart body   *)
(* into the pipe (the producer) and the HTTP request that reads it (the    *)
(* consumer). A write into an io.Pipe returns when the reader has taken    *)
(* the data or has been closed.                                            *)
(***************************************************************************)
\* what the producer writes at each of its writing steps
ChunkAt(pc) ==
  CASE pc = "field1" -> "reqtype"
    [] pc = "field2" -> "userhash"
    [] pc = "part" -> "header"
    [] pc = "copy" -> "data"
    [] pc = "closeM" -> "end"

\* the producer is at a write: of a field, the part header or the closing
\* boundary, or of a chunk that io.Copy has read or can read
Writing(p) ==
  \/ p.pc \in {"field1", "field2", "part", "closeM"}
  \/ p.pc = "copy" /\ (p.pending # None \/ (p.good > 0 /\ ~p.fileClosed))

\* the goroutine returning without running its deferred calls
ProducerExitNoClose(p) == [p EXCEPT !.pc = "exited"]

\* a return of the goroutine: the deferred m.Close() runs, then w.Close()
ProducerExit(p) == [p EXCEPT !.pc = "closeM"]

Fail(p, stage) == [p EXCEPT !.failed = IF @ = "" THEN stage ELSE @]

\* the producer after the reader has taken its chunk
AfterWrite(p) ==
  CASE p.pc = "field1" -> [p EXCEPT !.pc = "field2"]
    [] p.pc = "field2" -> [p EXCEPT !.pc = "part"]
    [] p.pc = "part" -> [p EXCEPT !.pc = "copy"]
    [] p.pc = "copy" -> [p EXCEPT !.good = @ - 1]
    [] p.pc = "closeM" -> [p EXCEPT !.pc = "closeW", !.mClosed = TRUE]

\* the producer after a write into the pipe has failed: the errors of
\* WriteField and of m.Close() are dropped, the others make it return
AfterWriteError(p) ==
  CASE p.pc = "field1" -> Fail([p EXCEPT !.pc = "field2"], "field")
    [] p.pc = "field2" -> Fail([p EXCEPT !.pc = "part"], "field")
    [] p.pc = "part" -> ProducerExit(Fail(p, "part"))
    [] p.pc = "copy" -> ProducerExit(Fail(p, "copy"))
    [] p.pc = "closeM" -> [p EXCEPT !.pc = "closeW", !.mClosed = TRUE]

\* io.Copy when the source has nothing more to give: the end of the data,
\* or a failed read (of a file, also of one the caller has closed)
AfterLastRead(p) ==
  IF p.fileClosed \/ (p.good = 0 /\ p.thenErr)
  THEN ProducerExit(Fail(p, "copy"))
  ELSE ProducerExit(p)

PipeIdle ==
  [ call |-> "none", pc |-> "idle", good |-> 0, thenErr |-> FALSE,
    fileClosed |-> FALSE, pending |-> None, failed |-> "",
    mClosed |-> FALSE, wClosed |-> FALSE, rd |-> "idle",
    plan |-> [toEOF |-> TRUE, reads |-> 0], body |-> <<>>,
    goroutines |-> 0, pipes |-> 0, requests |-> 0,
    ret |-> None, failedAtReturn |-> "" ]

(***************************************************************************)
(* FileData                                                                *)
(***************************************************************************)
\* NewFileData(name)
NewFileData(name) ==
  [ Path |-> "", URL |-> "", Size |-> 0, OrigName |-> name,
    MimeType |-> None, IsStream |-> FALSE,
    Meta |-> [k \in {"_type"} |-> "gradio.FileData"] ]

\* what a FileData method returns (the pointer, nil or the receiver, and
\* the error), the receiver after the call, and what the call did
FdReturn(f, isNil, err, io) == [fd |-> f, isNil |-> isNil, err |-> err, io |-> io]

\* FromUrl leaving Size as it was
FromUrlKeepSize(f, url) ==
  FdReturn([f EXCEPT !.URL = url, !.Path = url], FALSE, "", NoIO)

\* (*FileData).FromUrl(url)
FromUrl(f, url) ==
  FdReturn([f EXCEPT !.URL = url, !.Path = url, !.Size = 0], FALSE, "", NoIO)

\* FromBytes without the check of an empty buffer
FromBytesNoEmptyCheck(f, data, net) ==
  LET up == rawUpload(data, f.OrigName, net) IN
  IF up.err # "" THEN FdReturn(f, TRUE, "hfs quax upload", up.io)
  ELSE FdReturn([f EXCEPT !.URL = up.url, !.Path = up.url, !.Size = Len(data)],
                FALSE, "", up.io)

\* FromBytes recording the size before the upload has succeeded
FromBytesSizeFirst(f, data, net) ==
  IF Len(data) = 0 THEN FdReturn(f, TRUE, "hfs empty data", NoIO)
  ELSE LET sized == [f EXCEPT !.Size = Len(data)]
           up == rawUpload(data, f.OrigName, net)
       IN IF up.err # "" THEN FdReturn(sized, TRUE, "hfs quax upload", up.io)
          ELSE FdReturn([sized EXCEPT !.URL = up.url, !.Path = up.url],
                        FALSE, "", up.io)

\* (*FileData).FromBytes(data); net is the upload host's answer
FromBytes(f, data, net) ==
  IF Len(data) = 0 THEN FdReturn(f, TRUE, "hfs empty data", NoIO)
  ELSE LET up == rawUpload(data, f.OrigName, net) IN
       IF up.err # "" THEN FdReturn(f, TRUE, "hfs quax upload", up.io)
       ELSE FdReturn([f EXCEPT !.URL = up.url, !.Path = up.url,
                               !.Size = Len(data)],
                     FALSE, "", up.io)

\* the alphabet of base64.StdEncoding
B64Alphabet ==
  << "A", "B", "C", "D", "E", "F", "G", "H", "I", "J", "K", "L", "M",
     "N", "O", "P", "Q", "R", "S", "T", "U", "V", "W", "X", "Y", "Z",
     "a", "b", "c", "d", "e", "f", "g", "h", "i", "j", "k", "l", "m",
     "n", "o", "p", "q", "r", "s", "t", "u", "v", "w", "x", "y", "z",
     "0", "1", "2", "3", "4", "5", "6", "7", "8", "9", "+", "/" >>

IsB64(c) == \E i \in DOMAIN B64Alphabet : B64Alphabet[i] = c

B64Val(c) == (CHOOSE i \in DOMAIN B64Alphabet : B64Alphabet[i] = c) - 1

\* the decoder skips carriage returns and line feeds wherever they stand
StripNewlines(s) == SelectSeq(s, LAMBDA c : c \notin {"\n", "\r"})

\* the bytes of one quantum of four characters; padding is accepted in the
\* last quantum only, as "xx==" (one byte) or "xxx=" (two bytes)
DecodeQuantum(q, last) ==
  LET v(i) == IF IsB64(q[i]) THEN B64Val(q[i]) ELSE 0
      val == v(1) * 262144 + v(2) * 4096 + v(3) * 64 + v(4)
      bytes == << val \div 65536, (val \div 256) % 256, val % 256 >>
  IN IF \A i \in 1..4 : IsB64(q[i]) THEN [ok |-> TRUE, bytes |-> bytes]
     ELSE IF last /\ IsB64(q[1]) /\ IsB64(q[2]) /\ q[3] = "=" /\ q[4] = "="
     THEN [ok |-> TRUE, bytes |-> SubSeq(bytes, 1, 1)]
     ELSE IF last /\ IsB64(q[1]) /\ IsB64(q[2]) /\ IsB64(q[3]) /\ q[4] = "="
     THEN [ok |-> TRUE, bytes |-> SubSeq(bytes, 1, 2)]
     ELSE [ok |-> FALSE, bytes |-> <<>>]

RECURSIVE DecodeFrom(_, _)
DecodeFrom(t, i) ==
  IF i > Len(t) THEN [ok |-> TRUE, bytes |-> <<>>]
  ELSE IF i + 3 > Len(t) THEN [ok |-> FALSE, bytes |-> <<>>]
  ELSE LET q == DecodeQuantum(SubSeq(t, i, i + 3), i + 3 = Len(t)) IN
       IF ~q.ok THEN q
       ELSE LET rest == DecodeFrom(t, i + 4) IN
            [ok |-> rest.ok, bytes |-> q.bytes \o rest.bytes]

\* base64.StdEncoding.DecodeString: the bytes decoded, and whether the text
\* was well formed (after an error, the bytes decoded before it)
DecodeString(s) == DecodeFrom(StripNewlines(s), 1)

\* FromBase64 going on with the bytes decoded before a format error
FromBase64IgnoreError(f, b64, net) == FromBytes(f, DecodeString(b64).bytes, net)

\* (*FileData).FromBase64(b64)
FromBase64(f, b64, net) ==
  LET decoded == DecodeString(b64) IN
  IF ~decoded.ok THEN FdReturn(f, TRUE, "hfs base64 decode", NoIO)
  ELSE FromBytes(f, decoded.bytes, net)

(***************************************************************************)
(* time.Duration: a signed 64-bit count of nanoseconds, kept as its eight  *)
(* bytes (least significant first) in two's complement                     *)
(***************************************************************************)
\* the duration of n nanoseconds, for 0 <= n < 2^24
FromInt(n) ==
  << n % 256, (n \div 256) % 256, (n \div 65536) % 256, 0, 0, 0, 0, 0 >>

\* the sum of the byte products that fall on byte k of a product
Column(a, b, k) ==
  LET term[i \in 0..k] ==
        IF i = 0 THEN 0 ELSE term[i - 1] + a[i] * b[k + 1 - i]
  IN term[k]

RECURSIVE MulFrom(_, _, _, _)
MulFrom(a, b, k, carry) ==
  IF k > 8 THEN <<>>
  ELSE LET sum == Column(a, b, k) + carry
       IN <<sum % 256>> \o MulFrom(a, b, k + 1, sum \div 256)

\* a * b on int64: the low 64 bits of the product
Mul64(a, b) == MulFrom(a, b, 1, 0)

\* the sign bit of an int64
IsNegative(d) == d[8] >= 128

IsZero(d) == d = FromInt(0)

\* time.Second
Second == Mul64(FromInt(1000000), FromInt(1000))

\* n * time.Second
Seconds(n) == Mul64(FromInt(n), Second)

\* whether an http.Client with this Timeout sets a deadline on a request:
\* net/http does so only for a Timeout above zero
Enforced(d) == ~IsZero(d) /\ ~IsNegative(d)

(***************************************************************************)
(* HFSpace: construction and the setters                                   *)
(***************************************************************************)
\* m[key] = value on a map
Put(m, key, value) ==
  [k \in DOMAIN m \cup {key} |-> IF k = key THEN value ELSE m[k]]

\* (*HFSpace).WithHeader(key, value)
WithHeader(hh, key, value) ==
  [hh EXCEPT !.Headers = Put(hh.Headers, key, value)]

\* (*HFSpace).WithBearerToken(token)
WithBearerToken(hh, token) ==
  WithHeader(hh, "Authorization", "Bearer " \o token)

\* (*HFSpace).WithUserAgent(agent)
WithUserAgent(hh, agent) == WithHeader(hh, "User-Agent", agent)

\* (*HFSpace).WithTimeout(d): the http.Client objects after the call
WithTimeout(cs, hh, d) == [cs EXCEPT ![hh.client].Timeout = d]

\* (*HFSpace).WithHTTPClient(client)
WithHTTPClient(hh, client) == [hh EXCEPT !.client = client]

\* Do writing a header into the client's own map
DoReceiverSetsHeader(hh, endpoint, paramsOK, post, get) ==
  WithHeader(hh, "Accept", "text/event-stream")

\* the receiver of Do when Do returns: Do reads BaseURL, Headers and client
\* and assigns to none of them
DoReceiver(hh, endpoint, paramsOK, post, get) == hh

(***************************************************************************)
(* GetFileData and FileDataDownload                                        *)
(***************************************************************************)
\* http.StatusOK
StatusOK == 200

\* what a download returns: the content (or nil), the error, and the
\* requests it issued, each with the Timeout of the client that sent it
DlReturn(content, err, requests) ==
  [content |-> content, err |-> err, requests |-> requests]

\* FileDataDownload accepting every status
FileDataDownloadAnyStatus(fileData, timeout, net) ==
  IF fileData = None THEN DlReturn(None, "hfs filedata is nil", <<>>)
  ELSE IF fileData[1].URL = ""
  THEN DlReturn(None, "hfs filedata URL is empty", <<>>)
  ELSE
    LET req == [ method |-> "GET", url |-> fileData[1].URL,
                 timeout |-> Mul64(timeout, Second) ]
    IN IF ~UrlParseString(fileData[1].URL).ok
       THEN DlReturn(None, "hfs filedata get req create", <<>>)
       ELSE IF net.transportErr
       THEN DlReturn(None, "hfs filedata get req exec", <<req>>)
       ELSE IF net.readErr
       THEN DlReturn(None, "hfs filedata get resp read", <<req>>)
       ELSE IF Len(net.body) = 0
       THEN DlReturn(None, "hfs downloaded content is empty", <<req>>)
       ELSE DlReturn(Some(net.body), "", <<req>>)

\* FileDataDownload(fileData, timeout): fileData is nil (None) or points
\* to a FileData; net is the answer of the host to the GET
FileDataDownload(fileData, timeout, net) ==
  IF fileData = None THEN DlReturn(None, "hfs filedata is nil", <<>>)
  ELSE IF fileData[1].URL = ""
  THEN DlReturn(None, "hfs filedata URL is empty", <<>>)
  ELSE
    LET req == [ method |-> "GET", url |-> fileData[1].URL,
                 timeout |-> Mul64(timeout, Second) ]
    IN IF ~UrlParseString(fileData[1].URL).ok
       THEN DlReturn(None, "hfs filedata get req create", <<>>)
       ELSE IF net.transportErr
       THEN DlReturn(None, "hfs filedata get req exec", <<req>>)
       ELSE IF net.status # StatusOK
       THEN DlReturn(None, "hfs filedata get resp status", <<req>>)
       ELSE IF net.readErr
       THEN DlReturn(None, "hfs filedata get resp read", <<req>>)
       ELSE IF Len(net.body) = 0
       THEN DlReturn(None, "hfs downloaded content is empty", <<req>>)
       ELSE DlReturn(Some(net.body), "", <<req>>)

\* a FileData with this URL, as a server sends it
FileDataAt(url) == [NewFileData("") EXCEPT !.URL = url, !.Path = url]

\* json.Marshal(src) followed by json.Unmarshal into a FileData, for a src
\* that is neither a FileData nor a *FileData
JsonToFileData(src) ==
  CASE src.kind = "chan" ->
         [err |-> "hfs filedata json encode", fd |-> FileDataAt("")]
    [] src.kind \in {"string", "map url number"} ->
         [err |-> "hfs filedata json decode", fd |-> FileDataAt("")]
    [] src.kind = "map" -> [err |-> "", fd |-> FileDataAt(src.url)]
    [] OTHER -> [err |-> "", fd |-> FileDataAt("")]

\* GetFileData(src)
GetFileData(src, net) ==
  CASE src.kind = "FileData" ->
         FileDataDownload(Some(FileDataAt(src.url)), Seconds(30), net)
    [] src.kind = "*FileData" ->
         FileDataDownload(Some(FileDataAt(src.url)), Seconds(30), net)
    [] src.kind = "nil *FileData" -> DlReturn(None, "hfs nil *FileData", <<>>)
    [] OTHER ->
         LET j == JsonToFileData(src) IN
         IF j.err # "" THEN DlReturn(None, j.err, <<>>)
         ELSE FileDataDownload(Some(j.fd), Seconds(30), net)

(***************************************************************************)
(* The inputs of Do: endpoints, submission responses, event streams        *)
(***************************************************************************)
EndpointInfer == <<"/", "i", "n", "f", "e", "r">>

EndpointTwoSlashes == <<"/", "/", "i", "n", "f", "e", "r">>

\* "/a//b/": slashes inside and at the end of the path
EndpointInnerSlashes == <<"/", "a", "/", "/", "b", "/">>

\* "/infer", "infer", "//infer" and "/a//b/"
Endpoints ==
  { EndpointInfer,
    <<"i", "n", "f", "e", "r">>,
    EndpointTwoSlashes,
    EndpointInnerSlashes }

JsonString(s) == [t |-> "string", s |-> s]
JsonNumber(s) == [t |-> "number", s |-> s]

\* the bodies a submission POST is answered with: not JSON at all, null, an
\* array, and objects without event_id, with a string one, with a number
PostBodies ==
  { [json |-> "invalid", event_id |-> None],
    [json |-> "null", event_id |-> None],
    [json |-> "array", event_id |-> None],
    [json |-> "object", event_id |-> None],
    [json |-> "object", event_id |-> Some(JsonString("ev1"))],
    [json |-> "object", event_id |-> Some(JsonNumber("7"))] }

NoBody == [json |-> "invalid", event_id |-> None]

PostOutcomes ==
  { [transportErr |-> TRUE, body |-> NoBody] }
    \cup { [transportErr |-> FALSE, body |-> b] : b \in PostBodies }

LineGenerating ==
  <<"e", "v", "e", "n", "t", ":", " ", "g", "e", "n", "e", "r", "a", "t",
    "i", "n", "g">>
LineComplete ==
  <<"e", "v", "e", "n", "t", ":", " ", "c", "o", "m", "p", "l", "e", "t", "e">>
LineError == <<"e", "v", "e", "n", "t", ":", " ", "e", "r", "r", "o", "r">>
LineData1 == <<"d", "a", "t", "a", ":", " ", "[", "1", "]">>
LineData2 == <<"d", "a", "t", "a", ":", " ", "[", "2", "]">>
LineData42 == <<"d", "a", "t", "a", ":", " ", "[", "4", "2", "]">>
LineDataEmpty == <<"d", "a", "t", "a", ":", " ">>
LineDataBad == <<"d", "a", "t", "a", ":", " ", "o", "o", "p", "s">>

LineBlank == <<>>

\* the lines of the long streams
CoreLines ==
  { LineGenerating, LineComplete, LineError, LineData1, LineData2,
    LineData42, LineDataEmpty }

Lines == CoreLines \cup { LineDataBad, LineBlank }

\* event streams of at most ShortLines lines, of any kind of line
ShortStreams == UNION { [1..n -> Lines] : n \in 0..ShortLines }

\* event streams of more than ShortLines and at most MaxLines lines
LongStreams ==
  UNION { [1..n -> CoreLines] : n \in (ShortLines + 1)..MaxLines }

NoGet == [transportErr |-> TRUE, readErr |-> FALSE, lines |-> <<>>]

GetStream(ls) == [transportErr |-> FALSE, readErr |-> FALSE, lines |-> ls]

GetOutcomes ==
  { NoGet, [transportErr |-> FALSE, readErr |-> TRUE, lines |-> <<>>] }
    \cup { GetStream(ls) : ls \in ShortStreams }

PostEv1 ==
  [ transportErr |-> FALSE,
    body |-> [json |-> "object", event_id |-> Some(JsonString("ev1"))] ]

DoInput(e, pOK, post, get) ==
  [endpoint |-> e, paramsOK |-> pOK, post |-> post, get |-> get]

\* what a call of Do is given: every combination of endpoint, parameters,
\* submission response and short stream, and every long stream after a
\* well-formed submission to "/infer"
DoInputs ==
  { DoInput(e, pOK, post, get) :
      e \in Endpoints, pOK \in BOOLEAN, post \in PostOutcomes,
      get \in GetOutcomes }
    \cup { DoInput(EndpointInfer, TRUE, PostEv1, GetStream(ls)) :
             ls \in LongStreams }

NoPost == [transportErr |-> TRUE, body |-> NoBody]

(***************************************************************************)
(* The inputs of the uploader and of FileData                              *)
(***************************************************************************)
\* byte buffers of at most MaxData bytes
Buffers == UNION { [1..n -> {0}] : n \in 0..MaxData }

FileNames == {"", "a.png"}

UploadUrls == {"", "https://qu.ax/x.png", "HTTPS://qu.ax/y.png", ":bad"}

\* the files arrays of an upload response: empty, one descriptor, or two
\* (the code reads the first only)
FilesArrays ==
  {<<>>} \cup { <<u>> : u \in UploadUrls }
         \cup { <<u, "https://qu.ax/second.png">> : u \in UploadUrls }

NoUploadBody == [json |-> "invalid", success |-> FALSE, files |-> <<>>]

UploadOutcomes ==
  { [transportErr |-> TRUE, readErr |-> FALSE, body |-> NoUploadBody],
    [transportErr |-> FALSE, readErr |-> TRUE, body |-> NoUploadBody],
    [transportErr |-> FALSE, readErr |-> FALSE, body |-> NoUploadBody] }
    \cup { [transportErr |-> FALSE, readErr |-> FALSE,
            body |-> [json |-> "object", success |-> ok, files |-> fa]] :
             ok \in BOOLEAN, fa \in FilesArrays }

NoUpload == [transportErr |-> TRUE, readErr |-> FALSE, body |-> NoUploadBody]

\* the answers of the upload host used with the step-by-step upload
PipeOutcomes ==
  { NoUpload,
    [transportErr |-> FALSE, readErr |-> FALSE, body |-> NoUploadBody],
    [transportErr |-> FALSE, readErr |-> FALSE,
     body |-> [json |-> "object", success |-> FALSE, files |-> <<>>]],
    [transportErr |-> FALSE, readErr |-> FALSE,
     body |-> [json |-> "object", success |-> TRUE,
               files |-> <<"https://qu.ax/x.png">>]] }

\* what the HTTP layer does with the body: it reads it to its end, or it
\* closes the reader after so many chunks
Plans ==
  { [toEOF |-> TRUE, reads |-> 0] }
    \cup { [toEOF |-> FALSE, reads |-> n] : n \in 0..(MaxChunks + 3) }

SourceUrls == {"", "https://i.pinimg.com/a.jpg"}

Path1 == "/tmp/in.bin"

\* the states of the file at Path1
FileStates ==
  { [kind |-> "missing", size |-> 0] }
    \cup { [kind |-> k, size |-> n] :
             k \in {"regular", "unreadable"},
             n \in {1, MaxUploadSize, MaxUploadSize + 1} }

StringArg(s) == [t |-> "string", s |-> s, b |-> <<>>]
BytesArg(b) == [t |-> "bytes", s |-> "", b |-> b]
IntArg == [t |-> "int", s |-> "", b |-> <<>>]

\* the argument lists of Upload
UploadArgs ==
  { <<>>, <<IntArg>>, <<StringArg(Path1)>>, <<StringArg("/tmp/none")>> }
    \cup { <<BytesArg(b)>> : b \in Buffers }
    \cup { <<BytesArg(b), IntArg>> : b \in Buffers }
    \cup { <<BytesArg(b), StringArg(n)>> : b \in Buffers, n \in FileNames }

\* base64 texts with the bytes base64.StdEncoding decodes them to: well
\* formed texts (with and without padding, with a line break, with unused
\* trailing bits, the empty text) and malformed ones (a length that is no
\* multiple of four, missing padding, padding in the middle, a character
\* outside the alphabet, text after the padding)
B64Cases ==
  { [text |-> <<>>, valid |-> TRUE, bytes |-> <<>>],
    [text |-> <<"\n">>, valid |-> TRUE, bytes |-> <<>>],
    [text |-> <<"A", "A", "=", "=">>, valid |-> TRUE, bytes |-> <<0>>],
    [text |-> <<"A", "B", "=", "=">>, valid |-> TRUE, bytes |-> <<0>>],
    [text |-> <<"A", "Q", "=", "=">>, valid |-> TRUE, bytes |-> <<1>>],
    [text |-> <<"/", "w", "=", "=">>, valid |-> TRUE, bytes |-> <<255>>],
    [text |-> <<"A", "A", "E", "=">>, valid |-> TRUE, bytes |-> <<0, 1>>],
    [text |-> <<"A", "A", "\n", "=", "=">>, valid |-> TRUE, bytes |-> <<0>>],
    [text |-> <<"a", "G", "Z", "z">>, valid |-> TRUE,
     bytes |-> <<104, 102, 115>>],
    [text |-> <<"A">>, valid |-> FALSE, bytes |-> <<>>],
    [text |-> <<"A", "A">>, valid |-> FALSE, bytes |-> <<>>],
    [text |-> <<"A", "A", "=", "A">>, valid |-> FALSE, bytes |-> <<>>],
    [text |-> <<"=", "=", "=", "=">>, valid |-> FALSE, bytes |-> <<>>],
    [text |-> <<"!", "!", "!", "!">>, valid |-> FALSE, bytes |-> <<>>],
    [text |-> <<"A", "A", "A", "A", "A">>, valid |-> FALSE, bytes |-> <<>>],
    [text |-> <<"A", "A", "=", "=", "A", "A", "A", "A">>, valid |-> FALSE,
     bytes |-> <<>>] }

B64Texts == { c.text : c \in B64Cases }

FdIdle ==
  [ op |-> "none", url |-> "", data |-> <<>>, b64 |-> <<>>, net |-> NoUpload,
    pre |-> NewFileData(""), isNil |-> FALSE, err |-> "", io |-> NoIO ]

QxIdle ==
  [ op |-> "none", v |-> <<>>, net |-> NoUpload,
    ret |-> QxReturn("", "", NoIO) ]

(***************************************************************************)
(* State                                                                   *)
(***************************************************************************)
\* NewHfs(Name)
NewHfs(Name) ==
  [ BaseURL |-> "https://" \o Name \o ".hf.space/gradio_api/call",
    Headers |-> [k \in {"Content-Type"} |-> "application/json"],
    client |-> "DefaultClient" ]

\* the http.Client objects of the process: http.DefaultClient, and one the
\* caller has made to pass to WithHTTPClient
ClientIds == {"DefaultClient", "custom"}

\* the timeouts a caller passes to WithTimeout
Timeouts == { Seconds(5), Seconds(300) }

\* the timeout of the http.Client an instance sends its requests with
TimeoutOf(cs, hh) == cs[hh.client].Timeout

\* the URLs of the values handed to GetFileData
DlUrls == {"", "https://space.hf.space/file=out.png", ":bad"}

Src(kind, url) == [kind |-> kind, url |-> url]

\* the values handed to GetFileData: a FileData, a pointer to one, a nil
\* pointer, a decoded JSON object with a url, with none, with a url that is
\* a number, a string, nil, and a value that cannot be marshalled
Sources ==
  { Src(k, u) : k \in {"FileData", "*FileData", "map"}, u \in DlUrls }
    \cup { Src(k, "") : k \in {"nil *FileData", "map no url",
                                "map url number", "string", "nil", "chan"} }

DlBodies == { <<>>, <<7>>, <<7, 9>>, <<9, 7>> }

DlStatuses == {200, 201, 204, 404, 500}

NoDl == [transportErr |-> TRUE, status |-> 0, readErr |-> FALSE, body |-> <<>>]

\* the answers to the download GET
DlOutcomes ==
  { NoDl }
    \cup { [transportErr |-> FALSE, status |-> st, readErr |-> FALSE,
            body |-> b] : st \in DlStatuses, b \in DlBodies }
    \cup { [transportErr |-> FALSE, status |-> st, readErr |-> TRUE,
            body |-> <<>>] : st \in DlStatuses }

\* the arguments of a direct call of FileDataDownload: a nil pointer or a
\* FileData, and a timeout given as a count (30) or as a duration (30 s)
DlPointers == { None } \cup { Some(FileDataAt(u)) : u \in DlUrls }

DlTimeouts == { FromInt(30), Seconds(30) }

DlIdle ==
  [ op |-> "none", src |-> Src("nil", ""), fileData |-> None,
    timeout |-> FromInt(0), net |-> NoDl, ret |-> DlReturn(None, "", <<>>) ]

CfgIdle ==
  [ op |-> "none", who |-> 0, d |-> FromInt(0),
    pre |-> <<FromInt(0), FromInt(0)>> ]

\* a few calls of Do, one for each step at which Do returns
ClientDoInputs ==
  { DoInput(EndpointInfer, FALSE, NoPost, NoGet),
    DoInput(EndpointInfer, TRUE, NoPost, NoGet),
    DoInput(EndpointInfer, TRUE,
            [transportErr |-> FALSE, body |-> NoBody], NoGet),
    DoInput(EndpointInfer, TRUE, PostEv1, NoGet),
    DoInput(EndpointInfer, TRUE, PostEv1, GetStream(<<LineError>>)),
    DoInput(EndpointInfer, TRUE, PostEv1,
            GetStream(<<LineComplete, LineData1>>)) }

DoIdle ==
  [ op |-> "none", endpoint |-> <<>>, paramsOK |-> TRUE, post |-> NoPost,
    get |-> NoGet, ret |-> DoReturn(None, "", <<>>) ]

(***************************************************************************)
(* Actions of a caller of Do                                               *)
(***************************************************************************)
\* one call of Do, from entry to return; doCall keeps the call's arguments,
\* the responses it received and what it returned
DoCallWith(inputs) ==
  /\ doCall.op = "none"
  /\ \E in \in inputs :
       LET r == Do(h, in.endpoint, in.paramsOK, in.post, in.get) IN
       /\ doCall' = [ op |-> "Do", endpoint |-> in.endpoint,
                      paramsOK |-> in.paramsOK,
                      post |-> IF Len(r.requests) >= 1 THEN in.post
                               ELSE NoPost,
                      get |-> IF Len(r.requests) >= 2 THEN in.get ELSE NoGet,
                      ret |-> r ]
       /\ h' = DoReceiver(h, in.endpoint, in.paramsOK, in.post, in.get)
  /\ UNCHANGED <<fd, fdCall, fs, qxCall, clientVars, dlCall, pipe>>

DoCall == DoCallWith(DoInputs)

\* Do on a client that the setters have configured
ClientDo == DoCallWith(ClientDoInputs)

\* the caller has taken the result; the client is ready for the next call
DoDone ==
  /\ doCall.op = "Do"
  /\ doCall' = DoIdle
  /\ UNCHANGED <<h, fd, fdCall, fs, qxCall, clientVars, dlCall, pipe>>

(***************************************************************************)
(* Steps of one upload                                                     *)
(***************************************************************************)
\* rawUpload / fileUpload up to the request: the pipe is made, the goroutine
\* started, the request handed to the HTTP client
PipeStart ==
  /\ pipe.call = "none"
  /\ \E call \in {"rawUpload", "fileUpload"}, n \in 0..MaxChunks,
        e \in BOOLEAN, plan \in Plans :
       /\ call = "rawUpload" => ~e
       /\ pipe' = [ PipeIdle EXCEPT !.call = call, !.pc = "field1",
                      !.good = n, !.thenErr = e, !.rd = "reading",
                      !.plan = plan, !.goroutines = 1, !.pipes = 1,
                      !.requests = 1 ]
  /\ UNCHANGED <<h, doCall, fd, fdCall, fs, qxCall, clientVars, dlCall>>

\* the producer starts a write into the pipe
ProducerOffer ==
  /\ Writing(pipe) /\ pipe.pending = None /\ pipe.rd # "closed"
  /\ pipe' = [pipe EXCEPT !.pending = Some(ChunkAt(pipe.pc))]
  /\ UNCHANGED <<h, doCall, fd, fdCall, fs, qxCall, clientVars, dlCall>>

\* a write into the pipe returns io.ErrClosedPipe
ProducerWriteError ==
  /\ Writing(pipe) /\ pipe.rd = "closed"
  /\ pipe' = [AfterWriteError(pipe) EXCEPT !.pending = None]
  /\ UNCHANGED <<h, doCall, fd, fdCall, fs, qxCall, clientVars, dlCall>>

\* io.Copy returns: the source is at its end or its read has failed
ProducerCopyEnd ==
  /\ pipe.pc = "copy" /\ pipe.pending = None
  /\ pipe.good = 0 \/ pipe.fileClosed
  /\ pipe' = AfterLastRead(pipe)
  /\ UNCHANGED <<h, doCall, fd, fdCall, fs, qxCall, clientVars, dlCall>>

\* the deferred w.Close()
ProducerCloseW ==
  /\ pipe.pc = "closeW"
  /\ pipe' = [pipe EXCEPT !.pc = "exited", !.wClosed = TRUE]
  /\ UNCHANGED <<h, doCall, fd, fdCall, fs, qxCall, clientVars, dlCall>>

\* the HTTP layer reads what the producer is writing
ConsumerRead ==
  /\ pipe.rd = "reading" /\ pipe.pending # None
  /\ pipe.plan.toEOF \/ Len(pipe.body) < pipe.plan.reads
  /\ pipe' = [ AfterWrite(pipe) EXCEPT !.pending = None,
                 !.body = Append(pipe.body, pipe.pending[1]) ]
  /\ UNCHANGED <<h, doCall, fd, fdCall, fs, qxCall, clientVars, dlCall>>

\* the HTTP layer reads the end of the body
ConsumerEOF ==
  /\ pipe.rd = "reading" /\ pipe.pending = None /\ pipe.wClosed
  /\ pipe' = [pipe EXCEPT !.rd = "eof"]
  /\ UNCHANGED <<h, doCall, fd, fdCall, fs, qxCall, clientVars, dlCall>>

\* the HTTP layer closes the reader before the end of the body: the
\* request has failed, or the host has answered early
ConsumerClose ==
  /\ pipe.rd = "reading"
  /\ ~pipe.plan.toEOF /\ Len(pipe.body) >= pipe.plan.reads
  /\ pipe' = [pipe EXCEPT !.rd = "closed"]
  /\ UNCHANGED <<h, doCall, fd, fdCall, fs, qxCall, clientVars, dlCall>>

\* quax.Client.Do returns and the call returns to its caller; fileUpload
\* closes the file as it returns. The host reports success only for a body
\* it has read to its end.
PipeReturn ==
  /\ pipe.rd \in {"eof", "closed"} /\ pipe.ret = None
  /\ \E net \in PipeOutcomes :
       /\ pipe.rd = "closed" => ~net.body.success
       /\ pipe' = [ pipe EXCEPT
                      !.ret = Some(UploadResponse(net, UploadIO)),
                      !.failedAtReturn = pipe.failed,
                      !.fileClosed = (pipe.call = "fileUpload") ]
  /\ UNCHANGED <<h, doCall, fd, fdCall, fs, qxCall, clientVars, dlCall>>

\* the call has returned and its goroutine has ended
PipeDone ==
  /\ pipe.ret # None /\ pipe.pc = "exited"
  /\ pipe' = PipeIdle
  /\ UNCHANGED <<h, doCall, fd, fdCall, fs, qxCall, clientVars, dlCall>>

(***************************************************************************)
(* Actions of a caller downloading a result                                *)
(***************************************************************************)
\* GetFileData(src)
DlGetFileData ==
  /\ dlCall.op = "none"
  /\ \E src \in Sources, net \in DlOutcomes :
       LET r == GetFileData(src, net) IN
       dlCall' = [ op |-> "GetFileData", src |-> src, fileData |-> None,
                   timeout |-> FromInt(0),
                   net |-> IF r.requests # <<>> THEN net ELSE NoDl,
                   ret |-> r ]
  /\ UNCHANGED <<h, doCall, fd, fdCall, fs, qxCall, clientVars, pipe>>

\* FileDataDownload(fileData, timeout)
DlFileDataDownload ==
  /\ dlCall.op = "none"
  /\ \E p \in DlPointers, t \in DlTimeouts, net \in DlOutcomes :
       LET r == FileDataDownload(p, t, net) IN
       dlCall' = [ op |-> "FileDataDownload", src |-> Src("nil", ""),
                   fileData |-> p, timeout |-> t,
                   net |-> IF r.requests # <<>> THEN net ELSE NoDl,
                   ret |-> r ]
  /\ UNCHANGED <<h, doCall, fd, fdCall, fs, qxCall, clientVars, pipe>>

\* the caller has taken the bytes
DlDone ==
  /\ dlCall.op # "none"
  /\ dlCall' = DlIdle
  /\ UNCHANGED <<h, doCall, fd, fdCall, fs, qxCall, clientVars, pipe>>

(***************************************************************************)
(* Actions of a caller configuring two clients made by NewHfs              *)
(***************************************************************************)
\* the setters of headers are called on h; the setters of the transport,
\* which the instances may share, on h and on h2

\* instance who (1 is h, 2 is h2) becomes hh
SetInstance(who, hh) ==
  /\ h' = IF who = 1 THEN hh ELSE h
  /\ h2' = IF who = 2 THEN hh ELSE h2

Instance(who) == IF who = 1 THEN h ELSE h2

CfgRecord(op, who, d) ==
  [ op |-> op, who |-> who, d |-> d,
    pre |-> <<TimeoutOf(clients, h), TimeoutOf(clients, h2)>> ]

CfgWithHeader ==
  /\ h' = WithHeader(h, "X-Test", "1")
  /\ cfgCall' = CfgRecord("WithHeader", 1, FromInt(0))
  /\ UNCHANGED <<doCall, fd, fdCall, fs, qxCall, clients, h2, dlCall, pipe>>

CfgWithBearerToken ==
  /\ h' = WithBearerToken(h, "tok")
  /\ cfgCall' = CfgRecord("WithBearerToken", 1, FromInt(0))
  /\ UNCHANGED <<doCall, fd, fdCall, fs, qxCall, clients, h2, dlCall, pipe>>

CfgWithUserAgent ==
  /\ h' = WithUserAgent(h, "ua")
  /\ cfgCall' = CfgRecord("WithUserAgent", 1, FromInt(0))
  /\ UNCHANGED <<doCall, fd, fdCall, fs, qxCall, clients, h2, dlCall, pipe>>

CfgWithTimeout ==
  /\ \E who \in {1, 2}, d \in Timeouts :
       /\ clients' = WithTimeout(clients, Instance(who), d)
       /\ cfgCall' = CfgRecord("WithTimeout", who, d)
  /\ UNCHANGED <<h, h2, doCall, fd, fdCall, fs, qxCall, dlCall, pipe>>

CfgWithHTTPClient ==
  /\ \E who \in {1, 2} :
       /\ SetInstance(who, WithHTTPClient(Instance(who), "custom"))
       /\ cfgCall' = CfgRecord("WithHTTPClient", who, FromInt(0))
  /\ UNCHANGED <<doCall, fd, fdCall, fs, qxCall, clients, dlCall, pipe>>

(***************************************************************************)
(* Actions of a caller of FileData                                         *)
(***************************************************************************)
\* fd := NewFileData(name)
FdNew ==
  /\ fdCall.op = "none"
  /\ \E name \in FileNames :
       /\ fd' = NewFileData(name)
       /\ fdCall' = [FdIdle EXCEPT !.op = "NewFileData", !.pre = fd]
  /\ UNCHANGED <<h, doCall, fs, qxCall, clientVars, dlCall, pipe>>

\* fd.FromUrl(url)
FdFromUrl ==
  /\ fdCall.op = "none"
  /\ \E url \in SourceUrls :
       LET r == FromUrl(fd, url) IN
       /\ fd' = r.fd
       /\ fdCall' = [ op |-> "FromUrl", url |-> url, data |-> <<>>,
                      b64 |-> <<>>, net |-> NoUpload, pre |-> fd, isNil |-> r.isNil,
                      err |-> r.err, io |-> r.io ]
  /\ UNCHANGED <<h, doCall, fs, qxCall, clientVars, dlCall, pipe>>

\* fd.FromBytes(data)
FdFromBytes ==
  /\ fdCall.op = "none"
  /\ \E data \in Buffers, net \in UploadOutcomes :
       LET r == FromBytes(fd, data, net) IN
       /\ fd' = r.fd
       /\ fdCall' = [ op |-> "FromBytes", url |-> "", data |-> data,
                      b64 |-> <<>>,
                      net |-> IF Len(r.io.requests) > 0 THEN net ELSE NoUpload,
                      pre |-> fd, isNil |-> r.isNil, err |-> r.err,
                      io |-> r.io ]
  /\ UNCHANGED <<h, doCall, fs, qxCall, clientVars, dlCall, pipe>>

\* fd.FromBase64(b64)
FdFromBase64 ==
  /\ fdCall.op = "none"
  /\ \E b64 \in B64Texts, net \in UploadOutcomes :
       LET r == FromBase64(fd, b64, net) IN
       /\ fd' = r.fd
       /\ fdCall' = [ op |-> "FromBase64", url |-> "", data |-> <<>>,
                      b64 |-> b64,
                      net |-> IF Len(r.io.requests) > 0 THEN net ELSE NoUpload,
                      pre |-> fd, isNil |-> r.isNil, err |-> r.err,
                      io |-> r.io ]
  /\ UNCHANGED <<h, doCall, fs, qxCall, clientVars, dlCall, pipe>>

\* the caller has taken the result; the object is ready for the next call
FdDone ==
  /\ fdCall.op # "none"
  /\ fdCall' = FdIdle
  /\ UNCHANGED <<h, doCall, fd, fs, qxCall, clientVars, dlCall, pipe>>

(***************************************************************************)
(* Actions of a caller of Quax                                             *)
(***************************************************************************)
\* NewQuax(nil).Upload(v...)
QxUpload ==
  /\ qxCall.op = "none"
  /\ \E v \in UploadArgs, net \in UploadOutcomes :
       LET r == Upload(fs, v, net) IN
       qxCall' = [ op |-> "Upload", v |-> v,
                   net |-> IF Len(r.io.requests) > 0 THEN net ELSE NoUpload,
                   ret |-> r ]
  /\ UNCHANGED <<h, doCall, fd, fdCall, fs, clientVars, dlCall, pipe>>

\* the caller has taken the result
QxDone ==
  /\ qxCall.op = "Upload"
  /\ qxCall' = QxIdle
  /\ UNCHANGED <<h, doCall, fd, fdCall, fs, clientVars, dlCall, pipe>>

(***************************************************************************)
(* Specifications                                                          *)
(***************************************************************************)
Init ==
  /\ h = NewHfs("space")
  /\ doCall = DoIdle
  /\ fd = NewFileData("")
  /\ fdCall = FdIdle
  /\ fs \in [{Path1} -> FileStates]
  /\ qxCall = QxIdle
  /\ clients = [c \in ClientIds |-> [Timeout |-> FromInt(0)]]
  /\ h2 = NewHfs("other")
  /\ cfgCall = CfgIdle
  /\ dlCall = DlIdle
  /\ pipe = PipeIdle

NextDo == DoCall \/ DoDone

NextFd == FdNew \/ FdFromUrl \/ FdFromBytes \/ FdFromBase64 \/ FdDone

NextQx == QxUpload \/ QxDone

NextDl == DlGetFileData \/ DlFileDataDownload \/ DlDone

Producer ==
  ProducerOffer \/ ProducerWriteError \/ ProducerCopyEnd \/ ProducerCloseW

Consumer == ConsumerRead \/ ConsumerEOF \/ ConsumerClose

NextPipe == PipeStart \/ Producer \/ Consumer \/ PipeReturn \/ PipeDone

NextClient ==
  \/ CfgWithHeader \/ CfgWithBearerToken \/ CfgWithUserAgent
  \/ CfgWithTimeout \/ CfgWithHTTPClient
  \/ ClientDo \/ DoDone

Next == NextDo \/ NextFd \/ NextQx \/ NextClient \/ NextDl \/ NextPipe

\* the initial state with no file at Path1
InitNoFile == Init /\ fs[Path1].kind = "missing"

\* a caller of Do
SpecDo == InitNoFile /\ [][NextDo]_vars

\* a caller of the FileData constructors
SpecFd == InitNoFile /\ [][NextFd]_vars

\* a caller of the uploader, over every state of the file at Path1
SpecQx == Init /\ [][NextQx]_vars

SpecDl == InitNoFile /\ [][NextDl]_vars

\* the scheduler runs a goroutine that can run; the HTTP layer goes on
\* reading the body until it has its end or closes it, and then returns
SpecPipe ==
  /\ InitNoFile /\ [][NextPipe]_vars
  /\ WF_vars(Producer) /\ WF_vars(Consumer) /\ WF_vars(PipeReturn)

SpecClient == InitNoFile /\ [][NextClient]_vars

Spec == Init /\ [][Next]_vars

(***************************************************************************)
(* Vocabulary of the properties                                            *)
(***************************************************************************)
Min(S) == CHOOSE x \in S : \A y \in S : x <= y
Max(S) == CHOOSE x \in S : \A y \in S : x >= y

IsEventLine(l) == HasPrefix(l, EventPrefix)
IsDataLine(l) == HasPrefix(l, DataPrefix)
IsCompleteLine(l) == IsEventLine(l) /\ Contains(l, CompleteWord)
IsErrorLine(l) == IsEventLine(l) /\ Contains(l, ErrorWord)

\* the content of a data line
DataOf(l) == TrimSpace(SubSeq(l, Len(DataPrefix) + 1, Len(l)))

CompleteIdx(ls) == { i \in 1..Len(ls) : IsCompleteLine(ls[i]) }
ErrorIdx(ls) == { i \in 1..Len(ls) : IsErrorLine(ls[i]) }
DataIdx(ls) == { i \in 1..Len(ls) : IsDataLine(ls[i]) }

\* the last call of Do read an event stream: both requests were answered
\* and the body of the second was read
DoReadStream ==
  /\ doCall.op = "Do"
  /\ Len(doCall.ret.requests) = 2
  /\ ~doCall.get.transportErr
  /\ ~doCall.get.readErr

\* the stream that call read
stream == doCall.get.lines

\* what Do returns when the data line it retained has content d
OutcomeOfData(d) ==
  IF d = <<>> THEN [result |-> None, err |-> "hfs no data in resp"]
  ELSE IF UnmarshalResult(d).ok
       THEN [result |-> Some(UnmarshalResult(d).val), err |-> ""]
       ELSE [result |-> None, err |-> "hfs decode final resp"]

DoOutcome == [result |-> doCall.ret.result, err |-> doCall.ret.err]

(***************************************************************************)
(* Properties of Do                                                        *)
(***************************************************************************)
ExampleC1 == <<LineGenerating, LineData1, LineComplete, LineData2>>

C2_ErrorEventFails ==
  DoReadStream /\ ErrorIdx(stream) # {} /\ CompleteIdx(stream) = {} =>
    /\ doCall.ret.err # ""
    /\ doCall.ret.result = None

C2_Witness ==
  /\ DoReadStream
  /\ stream = <<LineData1, LineError, LineData2>>
  /\ doCall.ret.err = "hfs event error"
  /\ doCall.ret.result = None

\* C3: with neither a complete nor an error event, the outcome of Do is that
\* of the last data line of the stream; the stream that is only data: [42]
\* yields [42].
C3_LastDataWins ==
  DoReadStream /\ CompleteIdx(stream) = {} /\ ErrorIdx(stream) = {}
    /\ DataIdx(stream) # {} =>
      /\ DoOutcome = OutcomeOfData(DataOf(stream[Max(DataIdx(stream))]))
      /\ stream = <<LineData42>> =>
           DoOutcome = [result |-> Some(<<42>>), err |-> ""]

C3_Witness ==
  /\ DoReadStream
  /\ stream = <<LineData1, LineGenerating, LineData42>>
  /\ doCall.ret.result = Some(<<42>>)
  /\ doCall.ret.err = ""

\* C4 as stated: a stream with no data line at all makes Do fail with the
\* "no data in response" error and return no result (here after a
\* well-formed submission response).
C4_NoDataError_Original ==
  DoReadStream /\ doCall.post = PostEv1 /\ DataIdx(stream) = {} =>
    /\ doCall.ret.err = "hfs no data in resp"
    /\ doCall.ret.result = None

\* C4 (amended): a stream with no data line at all makes Do return an error
\* and no result; the error is the "no data in response" error unless the
\* stream has an error event, and then it is the event error.
C4_NoDataError ==
  DoReadStream /\ DataIdx(stream) = {} =>
    /\ doCall.ret.result = None
    /\ doCall.ret.err = IF ErrorIdx(stream) # {} THEN "hfs event error"
                        ELSE "hfs no data in resp"

C4_Witness ==
  /\ DoReadStream
  /\ stream = <<LineGenerating, LineComplete>>
  /\ doCall.ret.err = "hfs no data in resp"
  /\ doCall.ret.result = None

\* the submission POST was answered with a body
DoReadSubmission ==
  /\ doCall.op = "Do"
  /\ Len(doCall.ret.requests) >= 1
  /\ ~doCall.post.transportErr

\* C5: when the body of the submission response is not valid JSON, or is a
\* JSON object without event_id, Do returns an error and sends no GET.
C5_MissingEventIdFails ==
  DoReadSubmission
    /\ (\/ doCall.post.body.json = "invalid"
        \/ doCall.post.body.json = "object" /\ doCall.post.body.event_id = None)
    => /\ doCall.ret.err # ""
       /\ \A i \in 1..Len(doCall.ret.requests) :
            doCall.ret.requests[i].method # "GET"

(***************************************************************************)
(* Properties of FileData                                                  *)
(***************************************************************************)
\* C6: FromBytes of a non-empty buffer returns either an error, or the
\* FileData with a non-empty URL and Size equal to the buffer's length; it
\* never returns a FileData with an empty URL and a nil error.
C6_FromBytesUrlNonEmpty ==
  fdCall.op = "FromBytes" /\ Len(fdCall.data) > 0 =>
    \/ fdCall.err # "" /\ fdCall.isNil
    \/ /\ fdCall.err = ""
       /\ ~fdCall.isNil
       /\ fd.URL # ""
       /\ fd.Size = Len(fdCall.data)

\* C7: FromBytes of an empty buffer returns an error, for every filename,
\* before any pipe, goroutine or HTTP request is made.
C7_FromBytesEmptyFails ==
  fdCall.op = "FromBytes" /\ Len(fdCall.data) = 0 =>
    /\ fdCall.err # ""
    /\ fdCall.isNil
    /\ fdCall.io = NoIO

C7_Witness ==
  /\ fdCall.op = "FromBytes"
  /\ fdCall.data = <<>>
  /\ fdCall.pre.OrigName = "a.png"
  /\ fdCall.err = "hfs empty data"

\* C8: FromUrl(u) for a non-empty u does no network I/O, never fails, and
\* returns the FileData with URL and Path equal to u and Size 0, its
\* OrigName, MimeType, IsStream and Meta as they were before the call.
C8_FromUrlVerbatim ==
  fdCall.op = "FromUrl" /\ fdCall.url # "" =>
    /\ fdCall.io = NoIO
    /\ fdCall.err = ""
    /\ ~fdCall.isNil
    /\ fd.URL = fdCall.url
    /\ fd.Path = fdCall.url
    /\ fd.Size = 0
    /\ fd.OrigName = fdCall.pre.OrigName
    /\ fd.MimeType = fdCall.pre.MimeType
    /\ fd.IsStream = fdCall.pre.IsStream
    /\ fd.Meta = fdCall.pre.Meta

C8_Witness ==
  /\ fdCall.op = "FromUrl"
  /\ fdCall.url # ""
  /\ fdCall.pre.Size > 0
  /\ fdCall.pre.URL # fdCall.url
  /\ fdCall.pre.OrigName = "a.png"
  /\ fd.URL = fdCall.url
  /\ fd.Size = 0

(***************************************************************************)
(* Properties of the uploader                                              *)
(***************************************************************************)
\* C9: Upload of the path of an existing file larger than 200 MiB returns a
\* non-nil error, and no HTTP request is sent.
C9_TooLargeFails ==
  /\ qxCall.op = "Upload"
  /\ qxCall.v = <<StringArg(Path1)>>
  /\ fs[Path1].kind = "regular"
  /\ fs[Path1].size > MaxUploadSize
  => /\ qxCall.ret.err # ""
     /\ qxCall.ret.io.requests = <<>>

\* the last call of Upload, from raw bytes with a file name or from the
\* path of a file, sent its POST
UploadSent ==
  /\ qxCall.op = "Upload"
  /\ \/ qxCall.v = <<StringArg(Path1)>>
     \/ Len(qxCall.v) = 2 /\ qxCall.v[1].t = "bytes" /\ qxCall.v[2].t = "string"
  /\ Len(qxCall.ret.io.requests) = 1

\* C10: for both sources, Upload returns an error when the POST fails in
\* transport, or the response has success=false or an empty files array;
\* it returns a URL only when success is true and the array is non-empty,
\* and the URL is the first descriptor's.
C10_UploadResponse ==
  UploadSent =>
    /\ (\/ qxCall.net.transportErr
        \/ /\ ~qxCall.net.readErr
           /\ qxCall.net.body.json = "object"
           /\ ~qxCall.net.body.success \/ Len(qxCall.net.body.files) = 0)
         => qxCall.ret.err # ""
    /\ qxCall.ret.err = "" =>
         /\ qxCall.net.body.success
         /\ Len(qxCall.net.body.files) > 0
         /\ qxCall.ret.url = qxCall.net.body.files[1]

(***************************************************************************)
(* Properties of Do: URLs and requests                                     *)
(***************************************************************************)
\* the number of slashes an endpoint path begins with
SlashRun(e) == Max({ k \in 0..Len(e) : \A i \in 1..k : e[i] = "/" })

\* the endpoint path without the slashes it begins with
PathOf(e) == SubSeq(e, SlashRun(e) + 1, Len(e))

\* the job handle a submission response carries ("" when it has none)
HandleOf(body) ==
  IF body.event_id # None /\ body.event_id[1].t = "string"
  THEN body.event_id[1].s ELSE ""

DoSent == doCall.op = "Do" /\ Len(doCall.ret.requests) >= 1

\* C11 as stated: the request URL is the base, one slash, and the endpoint
\* with at most one leading slash trimmed; the GET URL is that URL, a slash
\* and the job handle.
C11_JoinUrl_Original ==
  DoSent =>
    LET e == doCall.endpoint
        trimmed == IF e # <<>> /\ e[1] = "/" THEN Tail(e) ELSE e
    IN /\ doCall.ret.requests[1].url = h.BaseURL \o "/" \o Str(trimmed)
       /\ Len(doCall.ret.requests) >= 2 =>
            doCall.ret.requests[2].url =
              doCall.ret.requests[1].url \o "/" \o HandleOf(doCall.post.body)

\* C11 (amended): the request URL is the base, one slash, and the endpoint
\* with every leading slash trimmed, its other slashes kept as they are; so
\* "/infer", "infer" and "//infer" all give <base>/infer, and the GET URL is
\* that URL, a slash and the job handle.
C11_JoinUrl ==
  DoSent =>
    /\ doCall.ret.requests[1].url =
         h.BaseURL \o "/" \o Str(PathOf(doCall.endpoint))
    /\ doCall.endpoint \in { EndpointInfer, EndpointTwoSlashes } =>
         doCall.ret.requests[1].url =
           "https://space.hf.space/gradio_api/call/infer"
    /\ doCall.endpoint = EndpointInnerSlashes =>
         doCall.ret.requests[1].url =
           "https://space.hf.space/gradio_api/call/a//b/"
    /\ Len(doCall.ret.requests) >= 2 =>
         doCall.ret.requests[2].url =
           doCall.ret.requests[1].url \o "/" \o HandleOf(doCall.post.body)

C11_Witness ==
  /\ DoSent
  /\ doCall.endpoint = EndpointTwoSlashes
  /\ Len(doCall.ret.requests) = 2
  /\ doCall.ret.requests[2].url =
       "https://space.hf.space/gradio_api/call/infer/ev1"

Methods(reqs) == [i \in 1..Len(reqs) |-> reqs[i].method]

\* the submission response was received and decoded into a job handle
SubmissionDecoded ==
  /\ ~doCall.post.transportErr
  /\ doCall.post.body.json \in {"object", "null"}
  /\ doCall.post.body.event_id # None =>
       doCall.post.body.event_id[1].t = "string"

\* C12: one call of Do issues at most one POST and at most one GET, the GET
\* only after the POST's response was received and decoded; after a failure
\* Do returns having issued nothing further: only the POST after a POST
\* transport error or a decode error of the submission response, the POST
\* and the GET after any later failure.
C12_NoRetry ==
  doCall.op = "Do" =>
    LET ms == Methods(doCall.ret.requests) IN
    /\ ms \in { <<>>, <<"POST">>, <<"POST", "GET">> }
    /\ Len(ms) = 2 => SubmissionDecoded
    /\ doCall.ret.err = "hfs req body marshall" => ms = <<>>
    /\ doCall.ret.err \in {"hfs post req exec", "hfs event ID decode"} =>
         ms = <<"POST">>
    /\ doCall.ret.err \in {"hfs get req exec", "hfs get resp read",
                           "hfs event error", "hfs no data in resp",
                           "hfs decode final resp"} =>
         ms = <<"POST", "GET">>
    /\ doCall.ret.err = "" => ms = <<"POST", "GET">>

C12_Witness ==
  /\ doCall.op = "Do"
  /\ doCall.ret.err = "hfs get req exec"
  /\ Methods(doCall.ret.requests) = <<"POST", "GET">>

(***************************************************************************)
(* Properties of FileData: FromBase64 and the shape of the object          *)
(***************************************************************************)
\* the known decoding of the text the last FromBase64 was called with
CaseOf(text) == CHOOSE c \in B64Cases : c.text = text

\* what the last FileData call returned and left behind
FdOutcome == FdReturn(fd, fdCall.isNil, fdCall.err, fdCall.io)

\* C15: FromBase64 of text that is not standard base64 returns an error and
\* starts no upload; of well formed text it returns, and does to the
\* receiver, what FromBytes of the decoded bytes does, so text that decodes
\* to no bytes fails with the empty-data error.
C15_FromBase64 ==
  fdCall.op = "FromBase64" =>
    LET c == CaseOf(fdCall.b64) IN
    /\ ~c.valid =>
         /\ fdCall.err = "hfs base64 decode"
         /\ fdCall.isNil
         /\ fdCall.io = NoIO
         /\ fd = fdCall.pre
    /\ c.valid => FdOutcome = FromBytes(fdCall.pre, c.bytes, fdCall.net)
    /\ c.valid /\ c.bytes = <<>> =>
         fdCall.err = "hfs empty data" /\ fdCall.io = NoIO

C15_Witness ==
  /\ fdCall.op = "FromBase64"
  /\ fdCall.b64 = <<"A", "A", "E", "=">>
  /\ fdCall.err = ""
  /\ fd.Size = 2
  /\ fd.URL = "https://qu.ax/x.png"

\* C18: a FileData made by NewFileData keeps Path equal to URL, IsStream
\* false and the "_type" entry of Meta through every FromUrl, FromBytes and
\* FromBase64, and a failing FromBytes or FromBase64 leaves URL, Path and
\* Size as they were before the call.
C18_FileDataShape ==
  /\ fd.Path = fd.URL
  /\ fd.IsStream = FALSE
  /\ fd.Meta["_type"] = "gradio.FileData"
  /\ fdCall.op \in {"FromBytes", "FromBase64"} /\ fdCall.err # "" =>
       /\ fd.URL = fdCall.pre.URL
       /\ fd.Path = fdCall.pre.Path
       /\ fd.Size = fdCall.pre.Size

C18_Witness ==
  /\ fdCall.op = "FromBase64"
  /\ fdCall.err = "hfs quax upload"
  /\ fdCall.pre.URL # ""
  /\ fd.URL = fdCall.pre.URL
  /\ fd.Size = fdCall.pre.Size

(***************************************************************************)
(* Properties of the client object                                         *)
(***************************************************************************)
\* C14: a call of Do, whichever way it returns, leaves BaseURL, Headers and
\* the HTTP client of the instance (and of every other instance) as they
\* were, so that any later Do sends what it would have sent without it.
C14_DoLeavesClient ==
  [][ doCall.op = "none" /\ doCall'.op = "Do" =>
        /\ h'.BaseURL = h.BaseURL
        /\ h'.Headers = h.Headers
        /\ h'.client = h.client
        /\ clients' = clients
        /\ h2' = h2
        /\ \A in \in ClientDoInputs :
             Do(h', in.endpoint, in.paramsOK, in.post, in.get) =
               Do(h, in.endpoint, in.paramsOK, in.post, in.get) ]_vars

\* a configured client after a failed Do
C14_Witness ==
  /\ doCall.op = "Do"
  /\ doCall.ret.err = "hfs get req exec"
  /\ "Authorization" \in DOMAIN h.Headers
  /\ h.client = "custom"
  /\ doCall.ret.requests[2].headers = h.Headers
  /\ doCall.ret.requests[2].client = h.client

\* C16: WithTimeout(d) on one client made by NewHfs sets the timeout that
\* client sends its requests with and leaves the timeout of the other
\* client, made by a separate NewHfs, as it was.
C16_TimeoutOwned ==
  /\ cfgCall.op = "WithTimeout"
  /\ h.client = "DefaultClient"
  /\ h2.client = "DefaultClient"
  => LET other == 3 - cfgCall.who
         now == <<TimeoutOf(clients, h), TimeoutOf(clients, h2)>>
     IN /\ now[cfgCall.who] = cfgCall.d
        /\ now[other] = cfgCall.pre[other]

(***************************************************************************)
(* Properties of the download                                              *)
(***************************************************************************)
\* the URL that can be extracted from the value handed to the download
UrlOfSource ==
  IF dlCall.op = "GetFileData"
  THEN IF dlCall.src.kind \in {"FileData", "*FileData", "map"}
       THEN dlCall.src.url ELSE ""
  ELSE IF dlCall.fileData = None THEN "" ELSE dlCall.fileData[1].URL

IsNilPointer ==
  \/ dlCall.op = "GetFileData" /\ dlCall.src.kind = "nil *FileData"
  \/ dlCall.op = "FileDataDownload" /\ dlCall.fileData = None

SuccessStatus(st) == st \in 200..299

\* C13: a download returns bytes only for a value with a non-empty URL whose
\* GET was answered with a success status and a non-empty body, and the
\* bytes are that body; a nil *FileData and a value without a URL fail
\* before any GET, a status that is no success fails, an empty body fails.
C13_Download ==
  dlCall.op \in {"GetFileData", "FileDataDownload"} =>
    LET r == dlCall.ret IN
    /\ (r.content = None) <=> (r.err # "")
    /\ r.content # None =>
         /\ UrlOfSource # ""
         /\ Len(r.requests) = 1
         /\ r.requests[1].method = "GET"
         /\ r.requests[1].url = UrlOfSource
         /\ ~dlCall.net.transportErr
         /\ SuccessStatus(dlCall.net.status)
         /\ dlCall.net.body # <<>>
         /\ r.content = Some(dlCall.net.body)
    /\ IsNilPointer \/ UrlOfSource = "" =>
         r.err # "" /\ r.requests = <<>>
    /\ r.requests # <<>> /\ ~dlCall.net.transportErr
         /\ ~SuccessStatus(dlCall.net.status) => r.err # ""
    /\ r.requests # <<>> /\ dlCall.net.body = <<>> => r.err # ""
    /\ Len(r.requests) <= 1

C13_Witness ==
  /\ dlCall.op = "GetFileData"
  /\ dlCall.src.kind = "map"
  /\ dlCall.ret.err = ""
  /\ dlCall.ret.content = Some(<<9, 7>>)
  /\ dlCall.net.body = <<9, 7>>

\* C17: the client GetFileData downloads with has a Timeout of 30 seconds in
\* nanoseconds: the product does not leave the int64 range, and the value
\* is above zero, so that a deadline is set.
C17_DefaultTimeout ==
  dlCall.op = "GetFileData" /\ dlCall.ret.requests # <<>> =>
    /\ dlCall.ret.requests[1].timeout = Seconds(30)
    /\ Enforced(dlCall.ret.requests[1].timeout)

(***************************************************************************)
(* Properties of the upload's goroutine and pipe                           *)
(***************************************************************************)
UploadRunning == pipe.call # "none"

\* the goroutine has ended and the HTTP layer is done with the body
UploadSettled == pipe.pc = "exited" /\ pipe.rd \in {"eof", "closed"}

\* C19: an upload call has one producer goroutine and one consumer, the
\* HTTP request; however the producer returns, the multipart writer is
\* closed first and the pipe writer after it; and with an HTTP layer that
\* reads the body to its end or closes the reader, the producer ends and
\* neither side stays blocked.
C19_PipePair ==
  /\ [](UploadRunning =>
          pipe.goroutines = 1 /\ pipe.pipes = 1 /\ pipe.requests = 1)
  /\ [](pipe.wClosed => pipe.mClosed)
  /\ [](pipe.pc = "exited" => pipe.mClosed /\ pipe.wClosed)
  /\ (UploadRunning ~> UploadSettled)

\* the copy of the file has failed, the goroutine has closed both writers
\* and ended, and the HTTP layer has read the end of the body
C19_Witness ==
  /\ pipe.call = "fileUpload"
  /\ pipe.failed = "copy"
  /\ pipe.pc = "exited"
  /\ pipe.mClosed /\ pipe.wClosed
  /\ pipe.rd = "eof"

\* C20: when the producer has failed while writing the body (a field
\* write, the creation of the file part or the copy), the upload call
\* returns an error, never a URL with a nil error.
C20_ProducerErrorSurfaces ==
  pipe.ret # None /\ pipe.failedAtReturn # "" => pipe.ret[1].err # ""

(***************************************************************************)
(* Properties of Do: the data line retained                                *)
(***************************************************************************)
\* the data lines of a stream that have content
FilledDataIdx(ls) == { i \in DataIdx(ls) : DataOf(ls[i]) # <<>> }

\* C21: when the stream has a data line with content and no error event, Do
\* does not fail with the "no data in response" error, also when a later
\* data line, such as the one after the complete event, is empty (here
\* after a well-formed submission response).
C21_DataRetained ==
  DoReadStream /\ doCall.post = PostEv1
    /\ FilledDataIdx(stream) # {} /\ ErrorIdx(stream) = {}
    => doCall.ret.err # "hfs no data in resp"

====
